---- MODULE Spec2Model ----
(***************************************************************************)
(* Model of the three Celery tasks of openrelik-worker-dissect:            *)
(*   rdump2jsonl   (src/src/rdump-jsonl.py)                                *)
(*   rdump2splunk  (src/src/rdump-splunk.py)                               *)
(*   dissect       (src/src/target-query.py)                               *)
(*                                                                         *)
(* A Python string is a Text: a sequence of string fragments.  Literals of *)
(* the source are one fragment, configuration values whose case matters    *)
(* are given character by character, and concatenation is \o.  A Python    *)
(* value is a record [t, v] whose tag t is the Python type.                *)
(***************************************************************************)
EXTENDS Integers, Sequences, FiniteSets, TLC

VARIABLES task, input_files, task_config, environ, pc, idx,
          protocol, sourcetype, token, final_command, output_files,
          output_file, created, procs, log, error, result

vars == <<task, input_files, task_config, environ, pc, idx,
          protocol, sourcetype, token, final_command, output_files,
          output_file, created, procs, log, error, result>>

----------------------------------------------------------------------------
(* Bounds of the model *)

MaxFiles == 2

----------------------------------------------------------------------------
(* Python values *)

NoneV    == [t |-> "None", v |-> <<>>]
Unbound  == [t |-> "unbound", v |-> <<>>]
Absent   == [t |-> "absent", v |-> <<>>]
Str(x)   == [t |-> "str", v |-> x]
List(xs) == [t |-> "list", v |-> xs]
Bool(b)  == [t |-> "bool", v |-> b]
Dict(f)  == [t |-> "dict", v |-> f]

(* bool(x) of Python *)
Truthy(x) ==
    CASE x.t = "None" -> FALSE
      [] x.t = "str"  -> x.v # <<>>
      [] x.t = "list" -> x.v # <<>>
      [] x.t = "bool" -> x.v
      [] x.t = "dict" -> DOMAIN x.v # {}

(* dict.get(key, default) *)
Get(d, key, default) == IF key \in DOMAIN d.v THEN d.v[key] ELSE default

UpperCase == <<"A","B","C","D","E","F","G","H","I","J","K","L","M",
               "N","O","P","Q","R","S","T","U","V","W","X","Y","Z">>
LowerCase == <<"a","b","c","d","e","f","g","h","i","j","k","l","m",
               "n","o","p","q","r","s","t","u","v","w","x","y","z">>

LowerChar(c) ==
    IF \E i \in DOMAIN UpperCase : UpperCase[i] = c
    THEN LowerCase[CHOOSE i \in DOMAIN UpperCase : UpperCase[i] = c]
    ELSE c

(* str.lower() *)
lower(s) == [i \in DOMAIN s |-> LowerChar(s[i])]

(* sep.join(parts) *)
RECURSIVE join(_, _)
join(sep, parts) ==
    IF parts = <<>> THEN <<>>
    ELSE IF Len(parts) = 1 THEN parts[1]
    ELSE parts[1] \o sep \o join(sep, Tail(parts))

(* str(list_of_str), as an f-string formats it *)
RECURSIVE reprItems(_)
reprItems(xs) ==
    IF xs = <<>> THEN <<>>
    ELSE IF Len(xs) = 1 THEN <<"'">> \o xs[1] \o <<"'">>
    ELSE <<"'">> \o xs[1] \o <<"'">> \o <<", ">> \o reprItems(Tail(xs))

repr(xs) == <<"[">> \o reprItems(xs) \o <<"]">>

(* the text an f-string or join puts for a str or None value *)
format(x) == IF x.t = "str" THEN x.v ELSE <<x.t>>

(* str(int) *)
str(n) == <<ToString(n)>>

----------------------------------------------------------------------------
(* Module-level values of the source *)

TCP     == <<"t","c","p">>
HTTP    == <<"h","t","t","p">>
HTTPS   == <<"h","t","t","p","s">>
RECORDS == <<"r","e","c","o","r","d","s">>
JSON    == <<"j","s","o","n">>

protocol_options   == <<TCP, HTTP, HTTPS>>
sourcetype_options == <<RECORDS, JSON>>

collected_plugins == << <<"A">>, <<"B">>, <<"C">> >>

dissect_version == <<"3.x">>

NoError == [type |-> "none", msg |-> <<>>]
RuntimeError(m)      == [type |-> "RuntimeError", msg |-> m]
AttributeError(m)    == [type |-> "AttributeError", msg |-> m]
UnboundLocalError(m) == [type |-> "UnboundLocalError", msg |-> m]

NoneTypeGet == <<"'NoneType' object has no attribute 'get'">>
UnboundName(n) == <<"local variable '", n, "' referenced before assignment">>

logline(level, m) == [level |-> level, msg |-> m]

IntV(n) == [t |-> "int", v |-> n]

----------------------------------------------------------------------------
(* Inputs a caller and the environment can supply *)

Paths       == {<<"/a">>, <<"/b">>}
ExitCodes   == {0, 1, 2}
StderrTexts == {<<>>, <<"bad input">>}

FileLists == UNION {[1..n -> {[path |-> p] : p \in Paths}] : n \in 0..MaxFiles}

HostValues == {NoneV, Str(<<>>), Str(<<"10.0.0.1">>)}
PortValues == {NoneV, Str(<<>>), Str(<<"8088">>)}

ProtocolValues ==
    {Absent, NoneV, Str(<<>>), Str(TCP), Str(<<"H","T","T","P">>), Str(HTTPS),
     List(<<>>), List(<<HTTP>>), List(<< <<"H","t","t","p","S">> >>),
     List(<<TCP, HTTP>>)}
SourcetypeValues ==
    {Absent, Str(<<"J","S","O","N">>), List(<< <<"R","e","c","o","r","d","s">> >>),
     List(<<RECORDS, JSON>>)}
TokenValues      == {Absent, Str(<<>>), Str(<<"abc">>)}
DisableSslValues == {Absent, Bool(FALSE), Bool(TRUE)}
PluginValues ==
    {Absent, NoneV, Str(<<"B">>), List(<<>>), List(<< <<"B">> >>),
     List(<< <<"C">>, <<"A">> >>)}

(* the dict holding exactly the keys whose value is supplied *)
MkDict(all) == Dict([k \in {k \in DOMAIN all : all[k] # Absent} |-> all[k]])

SplunkConfigs ==
    {NoneV} \cup
    {MkDict([protocol |-> p, sourcetype |-> s, token |-> k, disable_ssl |-> d]) :
        p \in ProtocolValues, s \in SourcetypeValues,
        k \in TokenValues, d \in DisableSslValues}

DissectConfigs == {NoneV} \cup {MkDict([plugins |-> p]) : p \in PluginValues}

NoEnviron == [SPLUNK_HOST |-> NoneV, SPLUNK_PORT |-> NoneV]

----------------------------------------------------------------------------
(* State at the invocation of a task *)

Locals ==
    /\ pc = "start"
    /\ idx = 1
    /\ protocol = Unbound
    /\ sourcetype = Unbound
    /\ token = Unbound
    /\ final_command = Unbound
    /\ output_files = <<>>
    /\ output_file = Unbound
    /\ created = 0
    /\ procs = <<>>
    /\ log = <<>>
    /\ error = NoError
    /\ result = NoneV

Init ==
    /\ input_files \in FileLists
    /\ \/ /\ task = "rdump2jsonl"
          /\ task_config = NoneV
          /\ environ = NoEnviron
       \/ /\ task = "rdump2splunk"
          /\ task_config \in SplunkConfigs
          /\ environ \in [SPLUNK_HOST : HostValues, SPLUNK_PORT : PortValues]
       \/ /\ task = "dissect"
          /\ task_config \in DissectConfigs
          /\ environ = NoEnviron
    /\ Locals

----------------------------------------------------------------------------
(* Steps shared by the tasks *)

Raise(e) ==
    /\ pc' = "failed"
    /\ error' = e

(* subprocess.Popen(command, ...): the child is running, returncode is None *)
Popen(command, stdout, stderr_piped) ==
    procs' = Append(procs, [command |-> command, stdout |-> stdout,
                            stderr_piped |-> stderr_piped,
                            returncode |-> NoneV, stderr |-> <<>>])

(* the running child exits with returncode rc after writing err to stderr *)
Exited(rc, err) ==
    procs' = [procs EXCEPT ![Len(procs)].returncode = IntV(rc),
                           ![Len(procs)].stderr = err]

(* variant: only exit code 1 is treated as a failure *)
ToolFailed_only1(rc) == rc = 1

(* process.returncode != 0 *)
ToolFailed(rc) == rc # 0

(* variant: the command of the first file is kept *)
AssignFinalCommand_keepfirst(old, command) ==
    IF old = Unbound THEN Str(join(<<" ">>, command)) ELSE old

(* the value of final_command after final_command = " ".join(command) *)
AssignFinalCommand(old, command) == Str(join(<<" ">>, command))

(* create_task_result(output_files, workflow_id, command, meta) *)
create_task_result(files, command) ==
    [output_files |-> files, command |-> command.v,
     meta |-> [dissect_version |-> dissect_version]]

(* return create_task_result(..., command=final_command, ...) *)
Return(files) ==
    IF final_command = Unbound
    THEN /\ Raise(UnboundLocalError(UnboundName("final_command")))
         /\ UNCHANGED result
    ELSE /\ pc' = "returned"
         /\ result' = create_task_result(files, final_command)
         /\ UNCHANGED error

(* variant: the message leaves the return code out *)
RdumpFailedMessage_nocode(rc) == <<"Rdump failed">>

RdumpFailedMessage(rc) == <<"Rdump failed with return code ">> \o str(rc)

(* process.communicate() and the return code checks of the rdump tasks *)
RdumpCommunicate ==
    \E rc \in ExitCodes, err \in StderrTexts :
        /\ Exited(rc, err)
        /\ IF rc = 0
           THEN log' = Append(log, logline("info", <<"Rdump finished running successfully">>))
           ELSE log' = log \o <<logline("error", RdumpFailedMessage(rc)),
                                logline("error", <<"stderr: ">> \o err)>>
        /\ IF ToolFailed(rc)
           THEN Raise(RuntimeError(RdumpFailedMessage(rc))) /\ UNCHANGED idx
           ELSE pc' = "loop" /\ idx' = idx + 1 /\ UNCHANGED error

----------------------------------------------------------------------------
(* rdump2jsonl *)

Jsonl_Begin ==
    /\ task = "rdump2jsonl"
    /\ pc = "start"
    /\ pc' = "loop"
    /\ UNCHANGED <<task, input_files, task_config, environ, idx, protocol,
                   sourcetype, token, final_command, output_files, output_file,
                   created, procs, log, error, result>>

JsonlCommand(input_file) == << <<"rdump">>, input_file.path, <<"-J">> >>

Jsonl_Launch ==
    /\ task = "rdump2jsonl"
    /\ pc = "loop"
    /\ idx <= Len(input_files)
    /\ LET command == JsonlCommand(input_files[idx])
           fc == AssignFinalCommand(final_command, command)
       IN /\ final_command' = fc
          /\ log' = log \o <<logline("info", <<"Final command is ">> \o fc.v),
                             logline("info", <<"Running rdump">>)>>
          /\ Popen(command, "PIPE", TRUE)
    /\ pc' = "running"
    /\ UNCHANGED <<task, input_files, task_config, environ, idx, protocol,
                   sourcetype, token, output_files, output_file, created,
                   error, result>>

Jsonl_Communicate ==
    /\ task = "rdump2jsonl"
    /\ pc = "running"
    /\ RdumpCommunicate
    /\ UNCHANGED <<task, input_files, task_config, environ, protocol,
                   sourcetype, token, final_command, output_files, output_file,
                   created, result>>

Jsonl_Return ==
    /\ task = "rdump2jsonl"
    /\ pc = "loop"
    /\ idx > Len(input_files)
    /\ Return(<<>>)
    /\ UNCHANGED <<task, input_files, task_config, environ, idx, protocol,
                   sourcetype, token, final_command, output_files, output_file,
                   created, procs, log>>

----------------------------------------------------------------------------
(* rdump2splunk *)

(* variant: only unset variables are rejected, empty ones pass *)
EnvMissing_isnone(host, port) == host = NoneV \/ port = NoneV

(* not splunk_host or not splunk_port *)
EnvMissing(host, port) == ~Truthy(host) \/ ~Truthy(port)

EnvMessage == <<"SPLUNK_HOST and SPLUNK_PORT environment variables are required">>

Splunk_CheckEnv ==
    /\ task = "rdump2splunk"
    /\ pc = "start"
    /\ IF EnvMissing(environ.SPLUNK_HOST, environ.SPLUNK_PORT)
       THEN Raise(RuntimeError(EnvMessage))
       ELSE pc' = "config" /\ UNCHANGED error
    /\ UNCHANGED <<task, input_files, task_config, environ, idx, protocol,
                   sourcetype, token, final_command, output_files, output_file,
                   created, procs, log, result>>

(* variant: off by one in the length test *)
MultiValued_gt2(config, key) ==
    /\ Get(config, key, NoneV).t = "list"
    /\ Len(config.v[key].v) > 2

(* isinstance(task_config.get(key), list) and len(task_config[key]) > 1 *)
MultiValued(config, key) ==
    /\ Get(config, key, NoneV).t = "list"
    /\ Len(config.v[key].v) > 1

SelectOnlyOneMessage(config, key) ==
    <<"Select only one ", key, ", got ">> \o repr(config.v[key].v)

(* the single lower-cased value of a choice field, or its default *)
ResolveChoice(raw, default) ==
    IF raw.t = "list"
    THEN LET lowered == [i \in DOMAIN raw.v |-> lower(raw.v[i])]
         IN IF lowered # <<>> THEN Str(lowered[1]) ELSE Str(default)
    ELSE IF Truthy(raw) THEN Str(lower(raw.v)) ELSE Str(default)

(* variant: https is forgotten in the token check *)
TokenMissing_httponly(proto, config) ==
    /\ proto = Str(HTTP)
    /\ ~Truthy(Get(config, "token", NoneV))

(* protocol in ["http", "https"] and not task_config.get("token") *)
TokenMissing(proto, config) ==
    /\ proto \in {Str(HTTP), Str(HTTPS)}
    /\ ~Truthy(Get(config, "token", NoneV))

TokenMessage == <<"Splunk HEC token is required for HTTP(S) protocol">>

Splunk_Config ==
    /\ task = "rdump2splunk"
    /\ pc = "config"
    /\ IF task_config.t # "dict"
       THEN /\ Raise(AttributeError(NoneTypeGet))
            /\ UNCHANGED <<protocol, sourcetype, token, log>>
       ELSE IF MultiValued(task_config, "protocol")
       THEN /\ Raise(RuntimeError(SelectOnlyOneMessage(task_config, "protocol")))
            /\ UNCHANGED <<protocol, sourcetype, token, log>>
       ELSE IF MultiValued(task_config, "sourcetype")
       THEN /\ Raise(RuntimeError(SelectOnlyOneMessage(task_config, "sourcetype")))
            /\ UNCHANGED <<protocol, sourcetype, token, log>>
       ELSE LET proto == ResolveChoice(Get(task_config, "protocol", Str(TCP)), TCP)
                stype == ResolveChoice(Get(task_config, "sourcetype", Str(RECORDS)), RECORDS)
            IN /\ protocol' = proto
               /\ sourcetype' = stype
               /\ log' = log \o <<logline("info", <<"Protocol is ">> \o proto.v),
                                  logline("info", <<"Sourcetype is ">> \o stype.v)>>
               /\ IF TokenMissing(proto, task_config)
                  THEN Raise(RuntimeError(TokenMessage)) /\ UNCHANGED token
                  ELSE /\ pc' = "loop"
                       /\ token' = IF proto \in {Str(HTTP), Str(HTTPS)}
                                   THEN Get(task_config, "token", NoneV)
                                   ELSE token
                       /\ UNCHANGED error
    /\ UNCHANGED <<task, input_files, task_config, environ, idx, final_command,
                   output_files, output_file, created, procs, result>>

(* variant: ssl_verify=false is appended for every protocol *)
FullUrl_anyssl(proto, host, port, stype, tok, config) ==
    LET url == <<"splunk+">> \o proto.v \o <<"://">> \o format(host) \o <<":">> \o format(port)
        p1  == <<"?sourcetype=">> \o stype.v
        p2  == IF proto \in {Str(HTTP), Str(HTTPS)}
               THEN <<"&token=">> \o format(tok) ELSE <<>>
        p3  == IF Truthy(Get(config, "disable_ssl", NoneV))
               THEN <<"&ssl_verify=false">> ELSE <<>>
    IN url \o p1 \o p2 \o p3

(* the destination of -w, lines 148-159 *)
FullUrl(proto, host, port, stype, tok, config) ==
    LET url == <<"splunk+">> \o proto.v \o <<"://">> \o format(host) \o <<":">> \o format(port)
        p1  == <<"?sourcetype=">> \o stype.v
        p2  == IF proto \in {Str(HTTP), Str(HTTPS)}
               THEN <<"&token=">> \o format(tok) ELSE <<>>
        p3  == IF proto = Str(HTTPS) /\ Truthy(Get(config, "disable_ssl", NoneV))
               THEN <<"&ssl_verify=false">> ELSE <<>>
    IN url \o p1 \o p2 \o p3

SplunkCommand(input_file, full_url) ==
    << <<"rdump">>, input_file.path, <<"-w">>, full_url >>

Splunk_Launch ==
    /\ task = "rdump2splunk"
    /\ pc = "loop"
    /\ idx <= Len(input_files)
    /\ LET full_url == FullUrl(protocol, environ.SPLUNK_HOST, environ.SPLUNK_PORT,
                               sourcetype, token, task_config)
           command == SplunkCommand(input_files[idx], full_url)
           fc == AssignFinalCommand(final_command, command)
       IN /\ final_command' = fc
          /\ log' = log \o <<logline("info", <<"Final command is ">> \o fc.v),
                             logline("info", <<"Running rdump">>)>>
          /\ Popen(command, "PIPE", TRUE)
    /\ pc' = "running"
    /\ UNCHANGED <<task, input_files, task_config, environ, idx, protocol,
                   sourcetype, token, output_files, output_file, created,
                   error, result>>

Splunk_Communicate ==
    /\ task = "rdump2splunk"
    /\ pc = "running"
    /\ RdumpCommunicate
    /\ UNCHANGED <<task, input_files, task_config, environ, protocol,
                   sourcetype, token, final_command, output_files, output_file,
                   created, result>>

Splunk_Return ==
    /\ task = "rdump2splunk"
    /\ pc = "loop"
    /\ idx > Len(input_files)
    /\ Return(<<>>)
    /\ UNCHANGED <<task, input_files, task_config, environ, idx, protocol,
                   sourcetype, token, final_command, output_files, output_file,
                   created, procs, log>>

----------------------------------------------------------------------------
(* dissect (target-query) *)

Dissect_Begin ==
    /\ task = "dissect"
    /\ pc = "start"
    /\ pc' = "loop"
    /\ output_files' = <<>>
    /\ UNCHANGED <<task, input_files, task_config, environ, idx, protocol,
                   sourcetype, token, final_command, output_file, created,
                   procs, log, error, result>>

(* create_output_file(output_path, extension="dump", data_type=...): the
   n-th file the task allocates *)
create_output_file(n) ==
    [path |-> <<"/out/", ToString(n), ".dump">>,
     data_type |-> "dissect:target:dump_file"]

(* the plugin list behind -f, lines 96-98 *)
SelectedPlugins(config) ==
    LET plugins == IF Truthy(config)
                   THEN Get(config, "plugins", List(collected_plugins))
                   ELSE List(collected_plugins)
    IN IF plugins.t # "list" THEN collected_plugins ELSE plugins.v

DissectCommand(input_file, config, out) ==
    << <<"target-query">>, input_file.path,
       <<"-f">>, join(<<",">>, SelectedPlugins(config)),
       <<"-q">>, <<">">>, out.path >>

Dissect_Launch ==
    /\ task = "dissect"
    /\ pc = "loop"
    /\ idx <= Len(input_files)
    /\ LET out == create_output_file(created + 1)
           command == DissectCommand(input_files[idx], task_config, out)
       IN /\ created' = created + 1
          /\ output_file' = out
          /\ final_command' = AssignFinalCommand(final_command, command)
          /\ log' = Append(log, logline("info", <<"Running target-query">>))
          /\ Popen(command, out.path, FALSE)
    /\ pc' = "running"
    /\ UNCHANGED <<task, input_files, task_config, environ, idx, protocol,
                   sourcetype, token, output_files, error, result>>

TargetQueryFailedMessage(rc) == <<"target-query failed with return code ">> \o str(rc)

(* the poll loop ends when the child exits; then the return code check *)
Dissect_Wait ==
    /\ task = "dissect"
    /\ pc = "running"
    /\ \E rc \in ExitCodes, err \in StderrTexts :
        /\ Exited(rc, err)
        /\ log' = Append(log, logline("info", <<"target-query finished running">>))
        /\ IF ToolFailed(rc)
           THEN /\ Raise(RuntimeError(TargetQueryFailedMessage(rc)))
                /\ UNCHANGED <<idx, output_files>>
           ELSE /\ output_files' = Append(output_files, output_file)
                /\ idx' = idx + 1
                /\ pc' = "loop"
                /\ UNCHANGED error
    /\ UNCHANGED <<task, input_files, task_config, environ, protocol,
                   sourcetype, token, final_command, output_file, created,
                   result>>

(* variant: the empty check is dropped *)
NoOutput_never(files) == FALSE

(* not output_files *)
NoOutput(files) == files = <<>>

NoOutputMessage == <<"Dissect didn't create any output files">>

Dissect_Return ==
    /\ task = "dissect"
    /\ pc = "loop"
    /\ idx > Len(input_files)
    /\ IF NoOutput(output_files)
       THEN Raise(RuntimeError(NoOutputMessage)) /\ UNCHANGED <<result, log>>
       ELSE /\ log' = Append(log, logline("info",
                        <<"Dissect created ">> \o str(Len(output_files)) \o <<" output files">>))
            /\ Return(output_files)
    /\ UNCHANGED <<task, input_files, task_config, environ, idx, protocol,
                   sourcetype, token, final_command, output_files, output_file,
                   created, procs>>

----------------------------------------------------------------------------

Next ==
    \/ Jsonl_Begin
    \/ Jsonl_Launch
    \/ Jsonl_Communicate
    \/ Jsonl_Return
    \/ Splunk_CheckEnv
    \/ Splunk_Config
    \/ Splunk_Launch
    \/ Splunk_Communicate
    \/ Splunk_Return
    \/ Dissect_Begin
    \/ Dissect_Launch
    \/ Dissect_Wait
    \/ Dissect_Return

Spec == Init /\ [][Next]_vars

TypeOK ==
    /\ pc \in {"start", "config", "loop", "running", "returned", "failed"}
    /\ idx \in 1..(Len(input_files) + 1)
    /\ Len(procs) <= Len(input_files)
    /\ (pc = "failed") = (error # NoError)
    /\ (pc = "returned") = (result # NoneV)

----------------------------------------------------------------------------
(* Vocabulary of the properties *)

Done == pc \in {"returned", "failed"}

(* sub occurs in text as a contiguous run of fragments *)
IsInfix(sub, text) ==
    \E i \in 0..(Len(text) - Len(sub)) : SubSeq(text, i + 1, i + Len(sub)) = sub

IsDict == task_config.t = "dict"

Raw(key) == Get(task_config, key, NoneV)

(* the raw value of a single-choice field is a list of more than one element *)
IsMulti(key) == IsDict /\ Raw(key).t = "list" /\ Len(Raw(key).v) > 1

(* the value a single-choice field stands for: its one element or itself,
   case-folded, or the default when absent or empty *)
Stands(key, default) ==
    LET r == Raw(key)
    IN IF r.t = "list" /\ r.v # <<>> THEN lower(r.v[1])
       ELSE IF r.t = "str" /\ r.v # <<>> THEN lower(r.v)
       ELSE default

EnvOk ==
    /\ environ.SPLUNK_HOST \notin {NoneV, Str(<<>>)}
    /\ environ.SPLUNK_PORT \notin {NoneV, Str(<<>>)}

NoToken == Raw("token") \in {NoneV, Str(<<>>)}

NeedsToken == Stands("protocol", TCP) \in {HTTP, HTTPS}

(* the child launched last has exited with a non-zero code *)
LastFailed ==
    /\ procs # <<>>
    /\ procs[Len(procs)].returncode \notin {NoneV, IntV(0)}

----------------------------------------------------------------------------
(* C1: in rdump2splunk, when the protocol resolves to http or https and no
   non-empty token is supplied, the task fails with a configuration error and
   no rdump process is launched (the error is the token error once the
   environment and the single-choice checks have passed); when the protocol
   resolves to tcp the task never fails with the token error. *)
C1_TokenRequired ==
    (task = "rdump2splunk" /\ IsDict /\ pc \notin {"start", "config"}) =>
        /\ (NeedsToken /\ NoToken) =>
              /\ pc = "failed"
              /\ error.type = "RuntimeError"
              /\ procs = <<>>
              /\ (EnvOk /\ ~IsMulti("protocol") /\ ~IsMulti("sourcetype"))
                    => error = RuntimeError(TokenMessage)
        /\ Stands("protocol", TCP) = TCP => error # RuntimeError(TokenMessage)

C1_Witness ==
    /\ task = "rdump2splunk"
    /\ IsDict
    /\ Raw("protocol") = List(<< <<"H","t","t","p","S">> >>)
    /\ Raw("token") = Str(<<>>)
    /\ Len(input_files) = 2
    /\ pc = "failed"
    /\ error = RuntimeError(TokenMessage)
    /\ procs = <<>>

(* C2: a child that exits with a non-zero code is the last one the task
   launches and the task has failed; the i-th child is the one launched for
   the i-th input file.  Holds for the three tasks. *)
C2_FailureAborts ==
    \A i \in DOMAIN procs :
        /\ procs[i].command[2] = input_files[i].path
        /\ procs[i].returncode \notin {NoneV, IntV(0)} =>
              /\ i = Len(procs)
              /\ pc = "failed"
              /\ error.type = "RuntimeError"

C2_Witness ==
    /\ Len(input_files) = 2
    /\ Len(procs) = 1
    /\ procs[1].returncode = IntV(2)
    /\ pc = "failed"

(* C4: in rdump2splunk, when SPLUNK_HOST or SPLUNK_PORT is unset or empty the
   task fails with the environment error, before any configuration handling
   (nothing resolved, nothing logged) and without launching a child, whatever
   the input files and the task configuration. *)
C4_EnvChecked ==
    (task = "rdump2splunk" /\ ~EnvOk) =>
        /\ procs = <<>>
        /\ protocol = Unbound /\ sourcetype = Unbound /\ token = Unbound
        /\ log = <<>>
        /\ pc # "start" => (pc = "failed" /\ error = RuntimeError(EnvMessage))

C4_Witness ==
    /\ task = "rdump2splunk"
    /\ environ.SPLUNK_HOST = Str(<<"10.0.0.1">>)
    /\ environ.SPLUNK_PORT = Str(<<>>)
    /\ IsMulti("protocol")
    /\ Len(input_files) = 2
    /\ pc = "failed"
    /\ error = RuntimeError(EnvMessage)

(* C3 as stated: when a child exits with a non-zero code, the message of the
   error raised contains both the exit code and the text the child wrote to
   stderr. *)
C3_ErrorCarriesStderr ==
    (pc = "failed" /\ LastFailed) =>
        /\ IsInfix(str(procs[Len(procs)].returncode.v), error.msg)
        /\ IsInfix(procs[Len(procs)].stderr, error.msg)

(* C3 amended: when a child exits with a non-zero code, the error raised is a
   RuntimeError whose message is "<tool> failed with return code <code>"; it
   carries the exit code and never the stderr text.  The rdump tasks capture
   stderr and write it to the error log; target-query does not capture it and
   logs nothing of it. *)
C3_ErrorCarriesCode ==
    (pc = "failed" /\ LastFailed) =>
        LET p == procs[Len(procs)]
            tool == IF task = "dissect" THEN "target-query" ELSE "Rdump"
        IN /\ error.type = "RuntimeError"
           /\ error.msg = <<tool \o " failed with return code ", ToString(p.returncode.v)>>
           /\ p.stderr # <<>> => ~IsInfix(p.stderr, error.msg)
           /\ IF task = "dissect"
              THEN /\ ~p.stderr_piped
                   /\ \A i \in DOMAIN log :
                        p.stderr # <<>> => ~IsInfix(p.stderr, log[i].msg)
              ELSE /\ p.stderr_piped
                   /\ log[Len(log)] = logline("error", <<"stderr: ">> \o p.stderr)

C3_Witness ==
    /\ task = "rdump2splunk"
    /\ pc = "failed"
    /\ LastFailed
    /\ procs[Len(procs)].returncode = IntV(2)
    /\ procs[Len(procs)].stderr = <<"bad input">>
    /\ error.msg = <<"Rdump failed with return code ", "2">>

(* C5 as stated: in the target-query task the value after -f is the
   comma-join of the selected plugins, and of the whole catalog when the
   selection is absent or empty (no task_config, no plugins key, or an empty
   list). *)
C5_PluginFlag ==
    (task = "dissect" /\ (IsDict => Raw("plugins").t \in {"None", "list"})
                      /\ (IsDict /\ Raw("plugins") = NoneV => "plugins" \notin DOMAIN task_config.v)) =>
        \A i \in DOMAIN procs :
            /\ procs[i].command[3] = <<"-f">>
            /\ procs[i].command[4] =
                  IF IsDict /\ Raw("plugins").t = "list" /\ Raw("plugins").v # <<>>
                  THEN join(<<",">>, Raw("plugins").v)
                  ELSE <<"A", ",", "B", ",", "C">>

(* C6: in rdump2splunk, once the environment check has passed, a protocol or
   sourcetype given as a list of more than one element makes the task fail
   with a RuntimeError whose message names an offending field and its
   received values, and no child is launched (with a missing environment the
   task has failed before that, also without launching); a list of exactly one
   element is accepted and the field resolves to that element, lower-cased. *)
C6_SingleChoice ==
    (task = "rdump2splunk" /\ IsDict /\ pc \notin {"start", "config"}) =>
        /\ (IsMulti("protocol") \/ IsMulti("sourcetype")) =>
              /\ pc = "failed"
              /\ error.type = "RuntimeError"
              /\ procs = <<>>
              /\ EnvOk =>
                    \E key \in {"protocol", "sourcetype"} :
                        /\ IsMulti(key)
                        /\ IsInfix(<<key>>, error.msg)
                        /\ IsInfix(repr(Raw(key).v), error.msg)
        /\ (EnvOk /\ ~IsMulti("protocol") /\ ~IsMulti("sourcetype")) =>
              /\ ~IsInfix(<<"Select only one ">>, error.msg)
              /\ (Raw("protocol").t = "list" /\ Len(Raw("protocol").v) = 1)
                    => protocol = Str(lower(Raw("protocol").v[1]))
              /\ (Raw("sourcetype").t = "list" /\ Len(Raw("sourcetype").v) = 1)
                    => sourcetype = Str(lower(Raw("sourcetype").v[1]))

C6_Witness ==
    /\ task = "rdump2splunk"
    /\ IsDict
    /\ Raw("protocol") = List(<< <<"H","t","t","p","S">> >>)
    /\ Raw("sourcetype") = List(<<RECORDS, JSON>>)
    /\ Len(input_files) = 1
    /\ pc = "failed"
    /\ procs = <<>>
    /\ error.msg = <<"Select only one ", "sourcetype", ", got ", "[",
                     "'", "r","e","c","o","r","d","s", "'", ", ",
                     "'", "j","s","o","n", "'", "]">>

(* C7: in rdump2splunk every child is launched with the vector
   [rdump, input path, -w, destination], where destination is
   splunk+<protocol>://<host>:<port>?sourcetype=<sourcetype>, then
   &token=<token> exactly when the protocol is http or https, then
   &ssl_verify=false exactly when the protocol is https and disable_ssl is
   set; host and port are SPLUNK_HOST and SPLUNK_PORT. *)
C7_Destination ==
    task = "rdump2splunk" =>
        \A i \in DOMAIN procs :
            LET proto == Stands("protocol", TCP)
                dest  == <<"splunk+">> \o proto \o <<"://">>
                         \o environ.SPLUNK_HOST.v \o <<":">> \o environ.SPLUNK_PORT.v
                         \o <<"?sourcetype=">> \o Stands("sourcetype", RECORDS)
                         \o (IF proto \in {HTTP, HTTPS}
                             THEN <<"&token=">> \o Raw("token").v ELSE <<>>)
                         \o (IF proto = HTTPS /\ Raw("disable_ssl") = Bool(TRUE)
                             THEN <<"&ssl_verify=false">> ELSE <<>>)
            IN /\ EnvOk
               /\ procs[i].command = << <<"rdump">>, input_files[i].path, <<"-w">>, dest >>

C7_Witness ==
    /\ task = "rdump2splunk"
    /\ procs # <<>>
    /\ Raw("disable_ssl") = Bool(TRUE)
    /\ procs[1].command[1] = <<"rdump">>
    /\ procs[1].command[3] = <<"-w">>
    /\ procs[1].command[4] =
          <<"splunk+", "h","t","t","p","s", "://", "10.0.0.1", ":", "8088",
            "?sourcetype=", "r","e","c","o","r","d","s",
            "&token=", "abc", "&ssl_verify=false">>

(* C8: the target-query task never returns a result with an empty
   output-file list: when its loop ends with no output artifact it fails with
   the no-output error; a result it returns lists exactly one output file per
   input file, in input order; and an output file is listed only once the
   child writing it for that input file has exited with code 0. *)
C8_OutputFiles ==
    task = "dissect" =>
        /\ Len(output_files) <= Len(procs)
        /\ \A i \in DOMAIN output_files :
              /\ output_files[i].path = procs[i].stdout
              /\ procs[i].command[2] = input_files[i].path
              /\ procs[i].command[7] = output_files[i].path
              /\ procs[i].returncode = IntV(0)
        /\ \A i, j \in DOMAIN output_files :
              i # j => output_files[i].path # output_files[j].path
        /\ (Done /\ ~LastFailed /\ output_files = <<>>) =>
              (pc = "failed" /\ error = RuntimeError(NoOutputMessage))
        /\ pc = "returned" =>
              /\ result.output_files # <<>>
              /\ result.output_files = output_files
              /\ Len(result.output_files) = Len(input_files)

C8_Witness ==
    /\ task = "dissect"
    /\ pc = "returned"
    /\ input_files = <<[path |-> <<"/b">>], [path |-> <<"/a">>]>>
    /\ Len(result.output_files) = 2
    /\ result.output_files[1].path = <<"/out/", "1", ".dump">>
    /\ result.output_files[2].path = <<"/out/", "2", ".dump">>

(* C9: when a task returns a result after processing one or more input
   files, the command string of the result is the space-join of the command
   vector launched for the last input file. *)
C9_LastCommand ==
    (pc = "returned" /\ Len(input_files) >= 1) =>
        LET n == Len(input_files)
        IN /\ Len(procs) = n
           /\ procs[n].command[2] = input_files[n].path
           /\ result.command = join(<<" ">>, procs[n].command)

C9_Witness ==
    /\ task = "rdump2jsonl"
    /\ pc = "returned"
    /\ input_files = <<[path |-> <<"/a">>], [path |-> <<"/b">>]>>
    /\ result.command = <<"rdump", " ", "/b", " ", "-J">>

(* C10 as stated: rdump2jsonl, and rdump2splunk with a valid configuration
   and environment, fail only when a child exits with a non-zero code: for
   every input file list, the empty one included, a run in which no child
   exits non-zero returns a result with an empty output-file list. *)
C10_FailsOnlyOnToolFailure ==
    LET valid ==
            \/ task = "rdump2jsonl"
            \/ /\ task = "rdump2splunk"
               /\ EnvOk
               /\ IsDict
               /\ ~IsMulti("protocol") /\ ~IsMulti("sourcetype")
               /\ ~(NeedsToken /\ NoToken)
    IN (valid /\ Done /\ ~LastFailed) =>
            /\ pc = "returned"
            /\ error = NoError
            /\ result.output_files = <<>>

====
